---------------------------- MODULE Spec2Model ----------------------------
(***************************************************************************)
(* PendingTickOptimizer: the per-tick budget that throttles portal-only    *)
(* pending-tick queues.  The model follows src/src/PendingTickOptimizer.cpp *)
(* statement by statement: LevelTickHook (the tick-start reset),            *)
(* PendingTicksHook (classification, per-call clamp, the compare-and-swap   *)
(* loop on gTickBudgetRemaining, the stats counters, the forwarded call),   *)
(* startStatsTask (the periodic report and reset of the counters),          *)
(* PluginImpl::enable and PluginImpl::disable.  Every access to an atomic   *)
(* is one step of the thread that performs it.                              *)
(***************************************************************************)
EXTENDS Integers, Sequences, FiniteSets, TLC

(***************************************************************************)
(* Bounds of the model.                                                    *)
(***************************************************************************)
\* how many operations (enable, disable, tick, drain call) the host starts
MaxOps == 5
\* how many of them it starts while the stats task is followed step by step
MaxStatsOps == 2
\* the longest queue the classifier is applied to
MaxQueueLen == 2

(***************************************************************************)
(* int is 32 bits wide (std::atomic<int> gTickBudgetRemaining, int max).   *)
(***************************************************************************)
IntMax == 2147483647
IntMin == (-IntMax) - 1

\* the host's worker contexts that drain queues concurrently
Workers == {1, 2}

Max2(a, b) == IF a >= b THEN a ELSE b
Min2(a, b) == IF b < a THEN b ELSE a

(***************************************************************************)
(* Exact arithmetic on sums of 32-bit values, for the bookkeeping of the   *)
(* properties: a number n is kept as <<n \div 2^16, n % 2^16>>, so sums of *)
(* a few ints never leave the range of the checker's integers.             *)
(***************************************************************************)
Limb == 256 * 256
Wide(n) == <<n \div Limb, n % Limb>>
WAdd(a, b) == <<a[1] + b[1] + ((a[2] + b[2]) \div Limb), (a[2] + b[2]) % Limb>>
WSub(a, b) == <<a[1] - b[1] + ((a[2] - b[2]) \div Limb), (a[2] - b[2]) % Limb>>
WLeq(a, b) == a[1] < b[1] \/ (a[1] = b[1] /\ a[2] <= b[2])
WZero == <<0, 0>>

(***************************************************************************)
(* The pending-tick queue: BlockTickingQueue::TickDataSet::mC, a sequence  *)
(* of BlockTick entries, each with mIsRemoved and mData.mBlock (a pointer, *)
(* possibly null, to a block with a type name).                            *)
(***************************************************************************)
NullBlock == "nullptr"
PortalNames == {"minecraft:portal", "minecraft:end_portal", "minecraft:end_gateway"}
OtherNames == {"minecraft:redstone_wire"}
BlockPtrs == PortalNames \cup OtherNames \cup {NullBlock}
BlockTick(removed, block) == [mIsRemoved |-> removed, mBlock |-> block]
BlockTicks == [mIsRemoved : BOOLEAN, mBlock : BlockPtrs]

(***************************************************************************)
(* isPortalOnlyQueue: removed entries and entries without a block are      *)
(* skipped; the first other entry that is not a portal type ends the scan  *)
(* with false; otherwise the answer is whether a portal entry was seen.    *)
(***************************************************************************)
RECURSIVE ScanQueue(_, _, _)
ScanQueue(queue, i, hasPortal) ==
    IF i > Len(queue) THEN hasPortal
    ELSE IF queue[i].mIsRemoved THEN ScanQueue(queue, i + 1, hasPortal)
    ELSE IF queue[i].mBlock = NullBlock THEN ScanQueue(queue, i + 1, hasPortal)
    ELSE IF queue[i].mBlock \in PortalNames THEN ScanQueue(queue, i + 1, TRUE)
    ELSE FALSE

\* a scan that stops at the first portal entry
FirstPortalQueue(queue) ==
    \E i \in 1..Len(queue) :
        /\ ~queue[i].mIsRemoved /\ queue[i].mBlock \in PortalNames
        /\ \A j \in 1..(i - 1) :
               queue[j].mIsRemoved \/ queue[j].mBlock = NullBlock

isPortalOnlyQueue(queue) == ScanQueue(queue, 1, FALSE)

(***************************************************************************)
(* The pieces of the two hooks that compute values.                        *)
(***************************************************************************)
\* the test without config.budgetEnabled
HookActiveNoBudgetFlag(enabledFlag, cfg) == enabledFlag /\ cfg.enabled

\* line 77-79 and line 99: the hook acts only with all three flags on
HookActive(enabledFlag, cfg) == enabledFlag /\ cfg.enabled /\ cfg.budgetEnabled

\* the store without std::max(1, .)
ResetValueRaw(cfg) == cfg.globalBudgetPerTick

\* line 81: the value LevelTickHook stores
ResetValue(cfg) == Max2(1, cfg.globalBudgetPerTick)

\* the hook without the per-call clamp
ClampMaxOff(max, cfg) == max

\* line 111-113: the per-call clamp
ClampMax(max, cfg) == IF max > cfg.budgetPerTick THEN cfg.budgetPerTick ELSE max

\* the skip test with < for <=
BudgetExhaustedStrict(remaining) == remaining < 0

\* line 117 and line 129: the skip test
BudgetExhausted(remaining) == remaining <= 0

\* the grant without std::min(., remaining)
AllowedUnbounded(max, remaining) == max

\* line 122 and line 133: std::min(max, remaining)
Allowed(max, remaining) == Min2(max, remaining)

\* line 125: remaining - allowed in int.  Signed overflow is undefined
\* behaviour: the result is then any of the wrapped value, zero, or IntMax.
SubOverflows(a, b) == (b < 0 /\ a > IntMax + b) \/ (b > 0 /\ a < IntMin + b)
SubWrapped(a, b) ==
    IF b < 0 THEN ((((a - IntMax) - 1) - b) + IntMin)
    ELSE ((((a - IntMin) - b) + IntMax) + 1)
NewBudget(remaining, allowed) ==
    IF SubOverflows(remaining, allowed)
    THEN {SubWrapped(remaining, allowed), 0, IntMax}
    ELSE {remaining - allowed}

\* line 100 and line 105: origin(region, until, max, instaTick_)
PassArgs(l) ==
    [region |-> l.region, until |-> l.until, max |-> l.max, instaTick |-> l.instaTick]

\* line 142: origin(region, until, max, allowed); the int allowed converts
\* to the bool parameter as allowed != 0
ForwardArgs(l) ==
    [region |-> l.region, until |-> l.until, max |-> l.max, instaTick |-> (l.allowed # 0)]

\* line 119, 131: the skip path returns false; line 100, 105, 142: the hook
\* returns what origin returned
HookReturn(skipped, originRet) == IF skipped THEN FALSE ELSE originRet

\* line 138: the capped test of a forwarded call
IsCapped(allowed, max) == allowed < max

\* the average without the test calls > 0
AvgQueueNoGuard(queued, calls) == <<queued, calls>>

\* line 167: calls > 0 ? float(queued) / float(calls) : 0.0f, as the
\* fraction <<numerator, denominator>>
AvgQueue(queued, calls) == IF calls > 0 THEN <<queued, calls>> ELSE <<0, 1>>

\* line 160-162: calls > 0 ? float(capped) / float(calls) * 100.0f : 0.0f
CappedPct(capped, calls) == IF calls > 0 THEN <<capped * 100, calls>> ELSE <<0, 1>>

\* line 164-169: the values logger().info receives
StatsReport(calls, queued, capped) ==
    [calls |-> calls, avgQueue |-> AvgQueue(queued, calls), capped |-> capped,
     cappedPct |-> CappedPct(capped, calls)]

(***************************************************************************)
(* Inputs.                                                                 *)
(***************************************************************************)
\* config.json: any ints, any flags.  With both flags on: caps between the
\* requests, a zero global cap, a zero per-call cap, the smallest int as
\* per-call cap; each flag is off in one more config.
Config(enabled, budgetEnabled, budgetPerTick, globalBudgetPerTick) ==
    [enabled |-> enabled, debug |-> FALSE, budgetEnabled |-> budgetEnabled,
     budgetPerTick |-> budgetPerTick, globalBudgetPerTick |-> globalBudgetPerTick]
\* the same config with "debug": true, which turns the stats report on
DebugOn(cfg) == [cfg EXCEPT !.debug = TRUE]
Configs ==
    {Config(TRUE, TRUE, 2, 3), Config(TRUE, TRUE, 2, 0), Config(TRUE, TRUE, 0, 3),
     Config(TRUE, TRUE, IntMin, 3), Config(FALSE, TRUE, 2, 3), Config(TRUE, FALSE, 2, 3)}

\* the queues the host drains: portal-only (with a removed wire entry and an
\* entry without a block) and mixed
PortalQueue ==
    <<BlockTick(FALSE, "minecraft:portal"), BlockTick(TRUE, "minecraft:redstone_wire"),
      BlockTick(FALSE, NullBlock)>>
MixedQueue ==
    <<BlockTick(FALSE, "minecraft:end_portal"), BlockTick(FALSE, "minecraft:redstone_wire")>>

\* the calls the host makes: tickPendingTicks(region, until, max, instaTick_)
\* on a queue
HostCall(region, until, max, instaTick, queue) ==
    [region |-> region, until |-> until, max |-> max, instaTick |-> instaTick,
     queue |-> queue]
HostCalls ==
    {HostCall("overworld", 10, 3, FALSE, PortalQueue),
     HostCall("the_end", 11, 1, TRUE, PortalQueue),
     HostCall("the_end", 11, 3, TRUE, MixedQueue)}

(***************************************************************************)
(* State.                                                                  *)
(***************************************************************************)
VARIABLES
    config,                \* static Config config
    pluginEnabled,         \* std::atomic<bool> pluginEnabled
    hookInstalled,         \* std::atomic<bool> hookInstalled
    hooked,                \* which of the two hooks are installed in the host
    gTickBudgetRemaining,  \* std::atomic<int>
    totalCallCount,        \* std::atomic<uint64_t>
    totalQueued,           \* std::atomic<uint64_t>
    totalCapped,           \* std::atomic<uint64_t>
    statsTasks,            \* the coroutines launched by startStatsTask, in order
    lifecycle,             \* position of the thread inside enable() / disable()
    tick,                  \* position of the thread inside LevelTickHook
    pc,                    \* position of each worker inside PendingTicksHook
    loc,                   \* each worker's arguments and locals (added: what the
                           \* call has added to the three counters so far;
                           \* retry: inside the loop of line 123-134, why its
                           \* last compare-and-swap failed)
    res,                   \* what each worker's call did: forwarded call, return value
    hist,                  \* bookkeeping for the properties (not program state)
    count                  \* how many operations the host has started

vars ==
    <<config, pluginEnabled, hookInstalled, hooked, gTickBudgetRemaining, totalCallCount,
      totalQueued, totalCapped, statsTasks, lifecycle, tick, pc, loc, res, hist, count>>

shared == <<gTickBudgetRemaining, totalCallCount, totalQueued, totalCapped>>

NoLoc ==
    [region |-> "none", until |-> 0, requested |-> 0, max |-> 0, instaTick |-> FALSE,
     queue |-> <<>>, remaining |-> 0, allowed |-> 0, sawZero |-> FALSE,
     added |-> [calls |-> 0, queued |-> 0, capped |-> 0], retry |-> "none"]
NoArgs == [region |-> "none", until |-> 0, max |-> 0, instaTick |-> FALSE]
NoRes == [kind |-> "none", invoked |-> FALSE, args |-> NoArgs, originRet |-> FALSE, ret |-> FALSE]

\* a stats task as startStatsTask launches it: about to run line 149, with
\* nothing loaded and nothing logged.  flush is bookkeeping for the
\* properties: whether a report is under way ("none" when not) and still
\* undisturbed by other writers of the counters ("clean", else "dirty").
NoReport == [calls |-> 0, avgQueue |-> <<0, 1>>, capped |-> 0, cappedPct |-> <<0, 1>>]
NoCounts == [calls |-> 0, queued |-> 0, capped |-> 0]
NewTask ==
    [pc |-> "start", calls |-> 0, queued |-> 0, capped |-> 0, report |-> NoReport,
     flush |-> "none"]

\* bookkeeping: the account of grants on the current budget; for each
\* counter its skew: since enable stored 0 in it, the values the reports
\* loaded of it, plus its current value, minus everything added to it; and
\* fresh: no drain call has added to a counter since enable began to reset
\* them (or since construction)
NoHist ==
    [base |-> 0, ticked |-> FALSE, granted |-> WZero, forwarded |-> WZero,
     demand |-> WZero, skew |-> NoCounts, fresh |-> TRUE]

\* the state after construction, line 18-26, with config.json loaded
Constructed(configs) ==
    /\ config \in configs
    /\ pluginEnabled = FALSE
    /\ hookInstalled = FALSE
    /\ hooked = [level |-> FALSE, pending |-> FALSE]
    /\ gTickBudgetRemaining = 0
    /\ totalCallCount = 0
    /\ totalQueued = 0
    /\ totalCapped = 0
    /\ statsTasks = <<>>
    /\ lifecycle = "idle"
    /\ tick = "idle"
    /\ pc = [w \in Workers |-> "idle"]
    /\ loc = [w \in Workers |-> NoLoc]
    /\ res = [w \in Workers |-> NoRes]
    /\ hist = NoHist
    /\ count = 0

Init == Constructed(Configs)

\* a store to gTickBudgetRemaining starts a new account of grants
Rebase(value, byTick) ==
    [hist EXCEPT !.base = value, !.ticked = byTick, !.granted = WZero,
                 !.forwarded = WZero, !.demand = WZero]

\* another thread writes a counter: a report under way is no longer undisturbed
Touch(tasks) ==
    [i \in DOMAIN tasks |->
        IF tasks[i].flush = "clean" THEN [tasks[i] EXCEPT !.flush = "dirty"] ELSE tasks[i]]

\* worker w's call is decided (granted or skipped) on the budget it has just
\* observed: its clamped max joins the demand made on the current budget
Decided(w) == [hist EXCEPT !.demand = WAdd(@, Wide(loc[w].max))]

(***************************************************************************)
(* PluginImpl::enable, line 202-225, one step per atomic store.            *)
(***************************************************************************)
EnableBegin ==
    /\ lifecycle = "idle"
    /\ count < MaxOps
    /\ pluginEnabled' = TRUE
    /\ lifecycle' = "en_calls"
    /\ count' = count + 1
    /\ UNCHANGED <<config, hookInstalled, hooked, shared, statsTasks, tick, pc, loc, res, hist>>

EnableCalls ==
    /\ lifecycle = "en_calls"
    /\ totalCallCount' = 0
    /\ hist' = [hist EXCEPT !.skew.calls = 0, !.fresh = TRUE]
    /\ statsTasks' = Touch(statsTasks)
    /\ lifecycle' = "en_queued"
    /\ UNCHANGED <<config, pluginEnabled, hookInstalled, hooked, gTickBudgetRemaining,
                   totalQueued, totalCapped, tick, pc, loc, res, count>>

EnableQueued ==
    /\ lifecycle = "en_queued"
    /\ totalQueued' = 0
    /\ hist' = [hist EXCEPT !.skew.queued = 0]
    /\ statsTasks' = Touch(statsTasks)
    /\ lifecycle' = "en_capped"
    /\ UNCHANGED <<config, pluginEnabled, hookInstalled, hooked, gTickBudgetRemaining,
                   totalCallCount, totalCapped, tick, pc, loc, res, count>>

\* enable without the reset of totalCapped
EnableCappedKept ==
    /\ lifecycle = "en_capped"
    /\ lifecycle' = "en_budget"
    /\ UNCHANGED <<config, pluginEnabled, hookInstalled, hooked, shared, statsTasks,
                   tick, pc, loc, res, hist, count>>

EnableCapped ==
    /\ lifecycle = "en_capped"
    /\ totalCapped' = 0
    /\ hist' = [hist EXCEPT !.skew.capped = 0]
    /\ statsTasks' = Touch(statsTasks)
    /\ lifecycle' = "en_budget"
    /\ UNCHANGED <<config, pluginEnabled, hookInstalled, hooked, gTickBudgetRemaining,
                   totalCallCount, totalQueued, tick, pc, loc, res, count>>

EnableBudget ==
    /\ lifecycle = "en_budget"
    /\ gTickBudgetRemaining' = 0
    /\ hist' = Rebase(0, FALSE)
    /\ lifecycle' = "en_hook"
    /\ UNCHANGED <<config, pluginEnabled, hookInstalled, hooked, totalCallCount,
                   totalQueued, totalCapped, statsTasks, tick, pc, loc, res, count>>

\* line 210-211: LevelTickHook::hook() when the hooks are not installed
EnableHookLevel ==
    /\ lifecycle = "en_hook"
    /\ IF hookInstalled
       THEN lifecycle' = "en_stats" /\ UNCHANGED hooked
       ELSE lifecycle' = "en_hook2" /\ hooked' = [hooked EXCEPT !.level = TRUE]
    /\ UNCHANGED <<config, pluginEnabled, hookInstalled, shared, statsTasks, tick,
                   pc, loc, res, hist, count>>

\* line 212-213: PendingTicksHook::hook(), hookInstalled.store(true)
EnableHookPending ==
    /\ lifecycle = "en_hook2"
    /\ hooked' = [hooked EXCEPT !.pending = TRUE]
    /\ hookInstalled' = TRUE
    /\ lifecycle' = "en_stats"
    /\ UNCHANGED <<config, pluginEnabled, shared, statsTasks, tick, pc, loc, res, hist, count>>

\* line 217: startStatsTask()
EnableStats ==
    /\ lifecycle = "en_stats"
    /\ statsTasks' = Append(statsTasks, NewTask)
    /\ lifecycle' = "idle"
    /\ UNCHANGED <<config, pluginEnabled, hookInstalled, hooked, shared, tick, pc, loc,
                   res, hist, count>>

enable ==
    \/ EnableBegin
    \/ EnableCalls
    \/ EnableQueued
    \/ EnableCapped
    \/ EnableBudget
    \/ EnableHookLevel
    \/ EnableHookPending
    \/ EnableStats

(***************************************************************************)
(* PluginImpl::disable, line 227-239.                                      *)
(***************************************************************************)
DisableBegin ==
    /\ lifecycle = "idle"
    /\ count < MaxOps
    /\ pluginEnabled' = FALSE
    /\ lifecycle' = "dis_hook"
    /\ count' = count + 1
    /\ UNCHANGED <<config, hookInstalled, hooked, shared, statsTasks, tick, pc, loc, res, hist>>

\* line 230-231: LevelTickHook::unhook() when the hooks are installed
DisableHookLevel ==
    /\ lifecycle = "dis_hook"
    /\ IF hookInstalled
       THEN lifecycle' = "dis_hook2" /\ hooked' = [hooked EXCEPT !.level = FALSE]
       ELSE lifecycle' = "idle" /\ UNCHANGED hooked
    /\ UNCHANGED <<config, pluginEnabled, hookInstalled, shared, statsTasks, tick,
                   pc, loc, res, hist, count>>

\* line 232-233: PendingTicksHook::unhook(), hookInstalled.store(false)
DisableHookPending ==
    /\ lifecycle = "dis_hook2"
    /\ hooked' = [hooked EXCEPT !.pending = FALSE]
    /\ hookInstalled' = FALSE
    /\ lifecycle' = "idle"
    /\ UNCHANGED <<config, pluginEnabled, shared, statsTasks, tick, pc, loc, res, hist, count>>

disable ==
    \/ DisableBegin
    \/ DisableHookLevel
    \/ DisableHookPending

(***************************************************************************)
(* LevelTickHook, line 70-86: the host's tick, with the hook installed.    *)
(***************************************************************************)
\* line 77-79: the test (reads pluginEnabled); when it fails, line 85
TickTest ==
    /\ tick = "idle"
    /\ hooked.level
    /\ count < MaxOps
    /\ count' = count + 1
    /\ tick' = IF HookActive(pluginEnabled, config) THEN "store" ELSE "idle"
    /\ UNCHANGED <<config, pluginEnabled, hookInstalled, hooked, shared, statsTasks,
                   lifecycle, pc, loc, res, hist>>

\* line 80-85: the store, then origin()
TickStore ==
    /\ tick = "store"
    /\ gTickBudgetRemaining' = ResetValue(config)
    /\ hist' = Rebase(ResetValue(config), TRUE)
    /\ loc' = [w \in Workers |-> [loc[w] EXCEPT !.sawZero = FALSE]]
    /\ tick' = "idle"
    /\ UNCHANGED <<config, pluginEnabled, hookInstalled, hooked, totalCallCount,
                   totalQueued, totalCapped, statsTasks, lifecycle, pc, res, count>>

LevelTickHook ==
    \/ TickTest
    \/ TickStore

(***************************************************************************)
(* PendingTicksHook, line 88-143: one drain call of worker w.              *)
(***************************************************************************)
\* The host calls tickPendingTicks(region, until, max, instaTick_) on a queue
\* and the installed hook runs.  Workers are interchangeable: the call is
\* taken by the first idle one.  Line 99-106: with a flag off, or a queue that
\* is not portal-only, the hook calls the original with the arguments it
\* received and returns its result.
CallEnter(w) ==
    /\ pc[w] = "idle"
    /\ \A v \in Workers : v < w => pc[v] # "idle"
    /\ hooked.pending
    /\ count < MaxOps
    /\ count' = count + 1
    /\ \E c \in HostCalls :
         LET l == [NoLoc EXCEPT !.region = c.region, !.until = c.until,
                                !.instaTick = c.instaTick, !.requested = c.max,
                                !.max = c.max, !.queue = c.queue,
                                !.sawZero = (gTickBudgetRemaining = 0)]
         IN  /\ loc' = [loc EXCEPT ![w] = l]
             /\ IF ~HookActive(pluginEnabled, config) \/ ~isPortalOnlyQueue(c.queue)
                THEN /\ pc' = [pc EXCEPT ![w] = "done"]
                     /\ \E originRet \in BOOLEAN :
                          res' = [res EXCEPT ![w] =
                                    [kind |-> "passthrough", invoked |-> TRUE,
                                     args |-> PassArgs(l), originRet |-> originRet,
                                     ret |-> HookReturn(FALSE, originRet)]]
                ELSE /\ pc' = [pc EXCEPT ![w] = "count"]
                     /\ UNCHANGED res
    /\ UNCHANGED <<config, pluginEnabled, hookInstalled, hooked, shared, statsTasks,
                   lifecycle, tick, hist>>

\* the hook without totalCallCount.fetch_add(1)
CallCountOff(w) ==
    /\ pc[w] = "count"
    /\ loc' = [loc EXCEPT ![w].max = ClampMax(loc[w].max, config)]
    /\ pc' = [pc EXCEPT ![w] = "load"]
    /\ UNCHANGED <<config, pluginEnabled, hookInstalled, hooked, shared, statsTasks,
                   lifecycle, tick, res, hist, count>>

\* line 108-113: totalCallCount.fetch_add(1), then the per-call clamp
CallCount(w) ==
    /\ pc[w] = "count"
    /\ totalCallCount' = totalCallCount + 1
    /\ loc' = [loc EXCEPT ![w].max = ClampMax(loc[w].max, config),
                           ![w].added.calls = @ + 1]
    /\ statsTasks' = Touch(statsTasks)
    /\ hist' = [hist EXCEPT !.fresh = FALSE]
    /\ pc' = [pc EXCEPT ![w] = "load"]
    /\ UNCHANGED <<config, pluginEnabled, hookInstalled, hooked, gTickBudgetRemaining,
                   totalQueued, totalCapped, lifecycle, tick, res, count>>

\* line 116-122: load the budget; skip when it is exhausted, else compute allowed
CallLoad(w) ==
    /\ pc[w] = "load"
    /\ LET remaining == gTickBudgetRemaining
       IN  IF BudgetExhausted(remaining)
           THEN /\ loc' = [loc EXCEPT ![w].remaining = remaining]
                /\ pc' = [pc EXCEPT ![w] = "skip"]
                /\ hist' = Decided(w)
           ELSE /\ loc' = [loc EXCEPT ![w].remaining = remaining,
                                      ![w].allowed = Allowed(loc[w].max, remaining)]
                /\ pc' = [pc EXCEPT ![w] = "cas"]
                /\ UNCHANGED hist
    /\ UNCHANGED <<config, pluginEnabled, hookInstalled, hooked, shared, statsTasks,
                   lifecycle, tick, res, count>>

\* line 118-119 and 130-131: totalCapped.fetch_add(1); return false
CallSkip(w) ==
    /\ pc[w] = "skip"
    /\ totalCapped' = totalCapped + 1
    /\ res' = [res EXCEPT ![w] =
                 [kind |-> "skipped", invoked |-> FALSE, args |-> NoArgs,
                  originRet |-> FALSE, ret |-> HookReturn(TRUE, FALSE)]]
    /\ loc' = [loc EXCEPT ![w].added.capped = @ + 1]
    /\ statsTasks' = Touch(statsTasks)
    /\ hist' = [hist EXCEPT !.fresh = FALSE]
    /\ pc' = [pc EXCEPT ![w] = "done"]
    /\ UNCHANGED <<config, pluginEnabled, hookInstalled, hooked, gTickBudgetRemaining,
                   totalCallCount, totalQueued, lifecycle, tick, count>>

\* line 123-128: compare_exchange_weak succeeds: the budget still equals
\* remaining and becomes remaining - allowed
CasSuccess(w) ==
    /\ pc[w] = "cas"
    /\ gTickBudgetRemaining = loc[w].remaining
    /\ gTickBudgetRemaining' \in NewBudget(loc[w].remaining, loc[w].allowed)
    /\ hist' = [Decided(w) EXCEPT !.granted = WAdd(@, Wide(loc[w].allowed))]
    /\ loc' = [loc EXCEPT ![w].retry = "none"]
    /\ pc' = [pc EXCEPT ![w] = "queued"]
    /\ UNCHANGED <<config, pluginEnabled, hookInstalled, hooked, totalCallCount,
                   totalQueued, totalCapped, statsTasks, lifecycle, tick, res, count>>

\* a failed compare_exchange_weak that leaves remaining as it was
CasFailStale(w) ==
    /\ pc[w] = "cas"
    /\ gTickBudgetRemaining # loc[w].remaining
    /\ loc' = [loc EXCEPT ![w].retry = "changed"]
    /\ UNCHANGED <<config, pluginEnabled, hookInstalled, hooked, shared, statsTasks,
                   lifecycle, tick, pc, res, hist, count>>

\* line 123-134: compare_exchange_weak fails because the budget changed:
\* remaining takes the current value; skip when exhausted, else recompute
CasFail(w) ==
    /\ pc[w] = "cas"
    /\ gTickBudgetRemaining # loc[w].remaining
    /\ LET remaining == gTickBudgetRemaining
       IN  IF BudgetExhausted(remaining)
           THEN /\ loc' = [loc EXCEPT ![w].remaining = remaining, ![w].retry = "none"]
                /\ pc' = [pc EXCEPT ![w] = "skip"]
                /\ hist' = Decided(w)
           ELSE /\ loc' = [loc EXCEPT ![w].remaining = remaining,
                                      ![w].allowed = Allowed(loc[w].max, remaining),
                                      ![w].retry = "changed"]
                /\ UNCHANGED <<pc, hist>>
    /\ UNCHANGED <<config, pluginEnabled, hookInstalled, hooked, shared, statsTasks,
                   lifecycle, tick, res, count>>

\* compare_exchange_weak may fail spuriously: remaining is reloaded with the
\* same value, allowed recomputed to the same value, and the loop goes round
CasSpurious(w) ==
    /\ pc[w] = "cas"
    /\ gTickBudgetRemaining = loc[w].remaining
    /\ ~BudgetExhausted(gTickBudgetRemaining)
    /\ loc' = [loc EXCEPT ![w].allowed = Allowed(loc[w].max, gTickBudgetRemaining),
                           ![w].retry = "spurious"]
    /\ UNCHANGED <<config, pluginEnabled, hookInstalled, hooked, shared, statsTasks,
                   lifecycle, tick, pc, res, hist, count>>

\* line 136: totalQueued.fetch_add(queue size)
CallQueued(w) ==
    /\ pc[w] = "queued"
    /\ totalQueued' = totalQueued + Len(loc[w].queue)
    /\ loc' = [loc EXCEPT ![w].added.queued = @ + Len(loc[w].queue)]
    /\ statsTasks' = Touch(statsTasks)
    /\ hist' = [hist EXCEPT !.fresh = FALSE]
    /\ pc' = [pc EXCEPT ![w] = "forward"]
    /\ UNCHANGED <<config, pluginEnabled, hookInstalled, hooked, gTickBudgetRemaining,
                   totalCallCount, totalCapped, lifecycle, tick, res, count>>

\* line 138-142: count a capped call, then call the original and return its result
CallForward(w) ==
    /\ pc[w] = "forward"
    /\ totalCapped' = IF IsCapped(loc[w].allowed, loc[w].max)
                      THEN totalCapped + 1 ELSE totalCapped
    /\ \E originRet \in BOOLEAN :
         res' = [res EXCEPT ![w] =
                   [kind |-> "forwarded", invoked |-> TRUE, args |-> ForwardArgs(loc[w]),
                    originRet |-> originRet, ret |-> HookReturn(FALSE, originRet)]]
    /\ hist' = [hist EXCEPT !.forwarded = WAdd(@, Wide(ForwardArgs(loc[w]).max)),
                            !.fresh = @ /\ ~IsCapped(loc[w].allowed, loc[w].max)]
    /\ statsTasks' = IF IsCapped(loc[w].allowed, loc[w].max)
                     THEN Touch(statsTasks) ELSE statsTasks
    /\ loc' = [loc EXCEPT ![w].added.capped =
                             IF IsCapped(loc[w].allowed, loc[w].max) THEN @ + 1 ELSE @]
    /\ pc' = [pc EXCEPT ![w] = "done"]
    /\ UNCHANGED <<config, pluginEnabled, hookInstalled, hooked, gTickBudgetRemaining,
                   totalCallCount, totalQueued, lifecycle, tick, count>>

\* the call has returned to the host
CallReturn(w) ==
    /\ pc[w] = "done"
    /\ pc' = [pc EXCEPT ![w] = "idle"]
    /\ loc' = [loc EXCEPT ![w] = NoLoc]
    /\ res' = [res EXCEPT ![w] = NoRes]
    /\ UNCHANGED <<config, pluginEnabled, hookInstalled, hooked, shared, statsTasks,
                   lifecycle, tick, hist, count>>

PendingTicksHook(w) ==
    \/ CallEnter(w)
    \/ CallCount(w)
    \/ CallLoad(w)
    \/ CallSkip(w)
    \/ CasSuccess(w)
    \/ CasFail(w)
    \/ CasSpurious(w)
    \/ CallQueued(w)
    \/ CallForward(w)
    \/ CallReturn(w)

Next ==
    \/ enable
    \/ disable
    \/ LevelTickHook
    \/ \E w \in Workers : PendingTicksHook(w)

Spec == Init /\ [][Next]_vars

\* the same program with per-call caps that are not positive
CapConfigs == {Config(TRUE, TRUE, -1, 3), Config(TRUE, TRUE, 0, 3)}
InitCaps == Constructed(CapConfigs)
SpecCaps == InitCaps /\ [][Next]_vars

(***************************************************************************)
(* startStatsTask, line 147-178: the coroutine enable launches on the      *)
(* server thread executor.  The executor runs one coroutine at a time, so  *)
(* a task starts or resumes only while every other task is suspended; the  *)
(* other threads run alongside.  One step per atomic access.  The length   *)
(* of the sleep (config.statsIntervalSec, at least 1 s) is not modelled:   *)
(* a sleeping task wakes at any later moment.                              *)
(***************************************************************************)
Suspended(t) == t.pc \in {"start", "sleep", "exited"}
ExecutorFree == \A j \in DOMAIN statsTasks : Suspended(statsTasks[j])

\* line 149-152, first time round: test pluginEnabled, then co_await
TaskStart(i) ==
    /\ statsTasks[i].pc = "start"
    /\ ExecutorFree
    /\ statsTasks' = [statsTasks EXCEPT ![i].pc = IF pluginEnabled THEN "sleep" ELSE "exited"]
    /\ UNCHANGED <<config, pluginEnabled, hookInstalled, hooked, shared, lifecycle, tick,
                   pc, loc, res, hist, count>>

\* line 152-155: the sleep ends; leave when the plugin is disabled; with
\* config.debug go on to the report, else round the loop
TaskWake(i) ==
    /\ statsTasks[i].pc = "sleep"
    /\ ExecutorFree
    /\ statsTasks' =
          [statsTasks EXCEPT ![i] =
              IF ~pluginEnabled THEN [@ EXCEPT !.pc = "exited"]
              ELSE IF config.debug
                   THEN [@ EXCEPT !.pc = "load_calls", !.flush = "clean"]
                   ELSE [@ EXCEPT !.pc = "while"]]
    /\ UNCHANGED <<config, pluginEnabled, hookInstalled, hooked, shared, lifecycle, tick,
                   pc, loc, res, hist, count>>

\* line 157: calls = totalCallCount.load()
TaskLoadCalls(i) ==
    /\ statsTasks[i].pc = "load_calls"
    /\ statsTasks' = [statsTasks EXCEPT ![i].calls = totalCallCount, ![i].pc = "load_queued"]
    /\ UNCHANGED <<config, pluginEnabled, hookInstalled, hooked, shared, lifecycle, tick,
                   pc, loc, res, hist, count>>

\* line 158: queued = totalQueued.load()
TaskLoadQueued(i) ==
    /\ statsTasks[i].pc = "load_queued"
    /\ statsTasks' = [statsTasks EXCEPT ![i].queued = totalQueued, ![i].pc = "load_capped"]
    /\ UNCHANGED <<config, pluginEnabled, hookInstalled, hooked, shared, lifecycle, tick,
                   pc, loc, res, hist, count>>

\* line 159-169: capped = totalCapped.load(), then the report is logged
TaskLoadCapped(i) ==
    /\ statsTasks[i].pc = "load_capped"
    /\ LET t == statsTasks[i]
       IN  /\ statsTasks' =
                 [statsTasks EXCEPT ![i].capped = totalCapped,
                                    ![i].report = StatsReport(t.calls, t.queued, totalCapped),
                                    ![i].pc = "store_calls"]
           /\ hist' = [hist EXCEPT !.skew.calls = @ + t.calls, !.skew.queued = @ + t.queued,
                                   !.skew.capped = @ + totalCapped]
    /\ UNCHANGED <<config, pluginEnabled, hookInstalled, hooked, shared, lifecycle, tick,
                   pc, loc, res, count>>

\* line 172: totalCallCount.store(0)
TaskStoreCalls(i) ==
    /\ statsTasks[i].pc = "store_calls"
    /\ totalCallCount' = 0
    /\ hist' = [hist EXCEPT !.skew.calls = @ - totalCallCount]
    /\ statsTasks' = [statsTasks EXCEPT ![i].pc = "store_queued"]
    /\ UNCHANGED <<config, pluginEnabled, hookInstalled, hooked, gTickBudgetRemaining,
                   totalQueued, totalCapped, lifecycle, tick, pc, loc, res, count>>

\* line 173: totalQueued.store(0)
TaskStoreQueued(i) ==
    /\ statsTasks[i].pc = "store_queued"
    /\ totalQueued' = 0
    /\ hist' = [hist EXCEPT !.skew.queued = @ - totalQueued]
    /\ statsTasks' = [statsTasks EXCEPT ![i].pc = "store_capped"]
    /\ UNCHANGED <<config, pluginEnabled, hookInstalled, hooked, gTickBudgetRemaining,
                   totalCallCount, totalCapped, lifecycle, tick, pc, loc, res, count>>

\* line 174-175: totalCapped.store(0); the locals go out of scope
TaskStoreCapped(i) ==
    /\ statsTasks[i].pc = "store_capped"
    /\ totalCapped' = 0
    /\ hist' = [hist EXCEPT !.skew.capped = @ - totalCapped]
    /\ statsTasks' = [statsTasks EXCEPT ![i].pc = "while", ![i].calls = 0,
                                        ![i].queued = 0, ![i].capped = 0,
                                        ![i].report = NoReport]
    /\ UNCHANGED <<config, pluginEnabled, hookInstalled, hooked, gTickBudgetRemaining,
                   totalCallCount, totalQueued, lifecycle, tick, pc, loc, res, count>>

\* line 149-152, round the loop: test pluginEnabled, then co_await
TaskLoop(i) ==
    /\ statsTasks[i].pc = "while"
    /\ statsTasks' = [statsTasks EXCEPT ![i].pc = IF pluginEnabled THEN "sleep" ELSE "exited",
                                        ![i].flush = "none"]
    /\ UNCHANGED <<config, pluginEnabled, hookInstalled, hooked, shared, lifecycle, tick,
                   pc, loc, res, hist, count>>

startStatsTask(i) ==
    \/ TaskStart(i)
    \/ TaskWake(i)
    \/ TaskLoadCalls(i)
    \/ TaskLoadQueued(i)
    \/ TaskLoadCapped(i)
    \/ TaskStoreCalls(i)
    \/ TaskStoreQueued(i)
    \/ TaskStoreCapped(i)
    \/ TaskLoop(i)

\* the reports are logged with "debug": true in config.json
StatsConfigs == {DebugOn(Config(TRUE, TRUE, 2, 3)), Config(TRUE, TRUE, 2, 3)}

\* the state after the first enable(): flag set, counters 0, both hooks
\* installed, one stats task launched; the budget 0, or as the first
\* TickStart has set it; MaxStatsOps operations of the host are to come
InitStats ==
    /\ config \in StatsConfigs
    /\ pluginEnabled = TRUE
    /\ hookInstalled = TRUE
    /\ hooked = [level |-> TRUE, pending |-> TRUE]
    /\ \E ticked \in BOOLEAN :
          /\ gTickBudgetRemaining = IF ticked THEN ResetValue(config) ELSE 0
          /\ hist = [NoHist EXCEPT !.base = gTickBudgetRemaining, !.ticked = ticked]
    /\ totalCallCount = 0
    /\ totalQueued = 0
    /\ totalCapped = 0
    /\ statsTasks = <<NewTask>>
    /\ lifecycle = "idle"
    /\ tick = "idle"
    /\ pc = [w \in Workers |-> "idle"]
    /\ loc = [w \in Workers |-> NoLoc]
    /\ res = [w \in Workers |-> NoRes]
    /\ count = MaxOps - MaxStatsOps

NextStats ==
    \/ Next
    \/ \E i \in DOMAIN statsTasks : startStatsTask(i)

SpecStats == InitStats /\ [][NextStats]_vars

\* the stats task and the drain calls alone: no enable, disable or tick
\* after the first
NextFlush ==
    \/ \E w \in Workers : PendingTicksHook(w)
    \/ \E i \in DOMAIN statsTasks : startStatsTask(i)

SpecFlush == InitStats /\ [][NextFlush]_vars

\* Fair scheduling of the drain calls: a worker inside PendingTicksHook goes
\* on to its next statement, and a compare_exchange_weak that could succeed
\* does not fail spuriously for ever.
CallStep(w) ==
    \/ CallCount(w)
    \/ CallLoad(w)
    \/ CallSkip(w)
    \/ CasSuccess(w)
    \/ CasFail(w)
    \/ CallQueued(w)
    \/ CallForward(w)
    \/ CallReturn(w)
FairCalls == \A w \in Workers : WF_vars(CallStep(w))

\* the program from the state after the first enable(), scheduled fairly
SpecFair == InitStats /\ [][Next]_vars /\ FairCalls

(***************************************************************************)
(* The classifier on its own: isPortalOnlyQueue applied to every queue of  *)
(* at most MaxQueueLen entries.                                            *)
(***************************************************************************)
Queues == UNION {[1..n -> BlockTicks] : n \in 0..MaxQueueLen}

ClassifyInit ==
    /\ config = Config(TRUE, TRUE, 2, 3)
    /\ pluginEnabled = TRUE
    /\ hookInstalled = TRUE
    /\ hooked = [level |-> TRUE, pending |-> TRUE]
    /\ gTickBudgetRemaining = 0
    /\ totalCallCount = 0
    /\ totalQueued = 0
    /\ totalCapped = 0
    /\ statsTasks = <<NewTask>>
    /\ lifecycle = "idle"
    /\ tick = "idle"
    /\ pc = [w \in Workers |-> IF w = 1 THEN "classify" ELSE "idle"]
    /\ \E q \in Queues : loc = [w \in Workers |-> IF w = 1 THEN [NoLoc EXCEPT !.queue = q] ELSE NoLoc]
    /\ res = [w \in Workers |-> NoRes]
    /\ hist = NoHist
    /\ count = 0

\* line 104: the hook's call of isPortalOnlyQueue
Classify ==
    /\ pc[1] = "classify"
    /\ res' = [res EXCEPT ![1].kind =
                 IF isPortalOnlyQueue(loc[1].queue) THEN "Eligible" ELSE "Passthrough"]
    /\ pc' = [pc EXCEPT ![1] = "classified"]
    /\ UNCHANGED <<config, pluginEnabled, hookInstalled, hooked, shared, statsTasks,
                   lifecycle, tick, loc, hist, count>>

SpecClassify == ClassifyInit /\ [][Classify]_vars

(***************************************************************************)
(* Properties.                                                             *)
(***************************************************************************)
\* worker w holds a grant: its compare-and-swap succeeded with loc[w].allowed
Granted(w) == pc[w] \in {"queued", "forward"}

\* worker w has started a drain call in this step
Entered(w) == pc[w] = "idle" /\ pc'[w] # "idle"

\* the arguments worker w received from the host
Received(l) ==
    [region |-> l.region, until |-> l.until, max |-> l.requested, instaTick |-> l.instaTick]

\* C1: between one TickStart and the next, the item counts that eligible
\* drain calls forward to the original operation sum to at most the budget
\* that TickStart set, max(1, globalBudgetPerTick).
C1_ForwardedWithinBudget ==
    hist.ticked => WLeq(hist.forwarded, Wide(Max2(1, config.globalBudgetPerTick)))

\* C2: within one tick starting from budget B, the allowed values of the
\* successful compare-and-swaps sum to at most B, and B minus the current
\* budget is exactly that sum (no unit granted twice).
C2_NoOverAllocation ==
    /\ WLeq(hist.granted, Wide(hist.base))
    /\ WSub(Wide(hist.base), Wide(gTickBudgetRemaining)) = hist.granted

\* C3: the Global Tick Budget is never negative.
C3_BudgetNonNegative == gTickBudgetRemaining >= 0

\* C4: a drain call that starts when the budget is 0 leaves the budget at 0
\* and, when eligible, is skipped (no grant, the original is not invoked,
\* the hook returns false), until the next TickStart.
C4_ExhaustedBudgetSkips ==
    \A w \in Workers :
        loc[w].sawZero =>
            /\ gTickBudgetRemaining = 0
            /\ ~Granted(w)
            /\ (pc[w] = "done" /\ res[w].kind # "passthrough") =>
                   (res[w].kind = "skipped" /\ ~res[w].invoked /\ res[w].ret = FALSE)

C4_Witness ==
    \E w \in Workers :
        /\ pc[w] = "done" /\ loc[w].sawZero /\ res[w].kind = "skipped"
        /\ hist.ticked /\ hist.granted = Wide(hist.base) /\ hist.base > 0

\* C5: an eligible call that requests more than budgetPerTick is clamped to
\* budgetPerTick before it reads the shared budget, and is granted at most
\* budgetPerTick whatever the remaining budget is.
C5_PerCallCap ==
    \A w \in Workers :
        loc[w].requested > config.budgetPerTick =>
            /\ pc[w] \in {"load", "cas", "skip", "queued", "forward"} =>
                   loc[w].max = config.budgetPerTick
            /\ Granted(w) => loc[w].allowed <= config.budgetPerTick

C5_Witness ==
    \E w \in Workers :
        /\ Granted(w) /\ loc[w].requested > config.budgetPerTick
        /\ loc[w].allowed = config.budgetPerTick /\ loc[w].remaining > loc[w].allowed

\* C6: whatever the configured caps, an eligible call that requests at least
\* one item while the budget is positive is granted at least one item.
C6_CapsAtLeastOne ==
    \A w \in Workers : (Granted(w) /\ loc[w].requested >= 1) => loc[w].allowed >= 1

\* C7: a forwarded call passes region, until and the instaTick flag on as
\* received, and the hook returns what the original returned.
C7_ForwardUnchanged ==
    \A w \in Workers :
        (pc[w] = "done" /\ res[w].kind = "forwarded") =>
            /\ res[w].args.region = loc[w].region
            /\ res[w].args.until = loc[w].until
            /\ res[w].args.instaTick = loc[w].instaTick
            /\ res[w].ret = res[w].originRet

\* C8: a drain call made with the plugin disabled, config.enabled false,
\* budgetEnabled false or a queue that is not portal-only calls the original
\* with the arguments it received, returns its result, and changes neither
\* the budget nor the three stats counters.
C8_PassthroughFrame ==
    [][\A w \in Workers :
          (Entered(w) /\ (~pluginEnabled \/ ~config.enabled \/ ~config.budgetEnabled
                          \/ ~isPortalOnlyQueue(loc'[w].queue))) =>
              /\ pc'[w] = "done"
              /\ res'[w].invoked
              /\ res'[w].args = Received(loc'[w])
              /\ res'[w].ret = res'[w].originRet
              /\ UNCHANGED shared]_vars

C8_Witness ==
    \E w \in Workers :
        /\ pc[w] = "done" /\ res[w].kind = "passthrough" /\ res[w].invoked
        /\ gTickBudgetRemaining > 0 /\ totalCallCount > 0

\* an entry the scan looks at: not removed, and with a block
Scanned(e) == ~e.mIsRemoved /\ e.mBlock # NullBlock

\* C9 as stated: Eligible exactly when the queue has a live (non-removed)
\* entry and every live entry's type is a portal type.
C9_ClassifierLive ==
    pc[1] = "classified" =>
        LET q == loc[1].queue
        IN  (res[1].kind = "Eligible") <=>
                /\ \E i \in 1..Len(q) : ~q[i].mIsRemoved
                /\ \A i \in 1..Len(q) : ~q[i].mIsRemoved => q[i].mBlock \in PortalNames

\* C9 amended: Eligible exactly when the queue has an entry that is neither
\* removed nor without a block, and every such entry's type is a portal
\* type; whatever the order of the entries.
C9_ClassifierScanned ==
    pc[1] = "classified" =>
        LET q == loc[1].queue
        IN  /\ res[1].kind \in {"Eligible", "Passthrough"}
            /\ (res[1].kind = "Eligible") <=>
                   /\ \E i \in 1..Len(q) : Scanned(q[i])
                   /\ \A i \in 1..Len(q) : Scanned(q[i]) => q[i].mBlock \in PortalNames

C9_Witness ==
    /\ pc[1] = "classified" /\ res[1].kind = "Eligible"
    /\ \E i \in 1..Len(loc[1].queue) :
          ~loc[1].queue[i].mIsRemoved /\ loc[1].queue[i].mBlock = NullBlock

\* a step of the tick that ran the test of LevelTickHook
TickTested == count' # count /\ lifecycle' = lifecycle /\ pc' = pc

\* C10: with the plugin enabled and budgeting on, TickStart stores
\* max(1, globalBudgetPerTick) whatever the budget was; otherwise it leaves
\* the budget as it is.
C10_ResetIdempotent ==
    [][/\ TickTested =>
             /\ gTickBudgetRemaining' = gTickBudgetRemaining
             /\ (tick' = "store") <=> (pluginEnabled /\ config.enabled /\ config.budgetEnabled)
       /\ (tick = "store" /\ tick' = "idle") =>
             gTickBudgetRemaining' = Max2(1, config.globalBudgetPerTick)]_vars

\* a second TickStart is about to store with no grant since the first
C10_Witness ==
    /\ tick = "store" /\ hist.ticked /\ hist.granted = WZero
    /\ gTickBudgetRemaining = Max2(1, config.globalBudgetPerTick)

\* worker w's compare-and-swap succeeds in this step
CasSucceeds(w) == pc[w] = "cas" /\ pc'[w] = "queued"

\* worker w's call is forwarded to the original in this step
Forwards(w) == pc[w] = "forward" /\ pc'[w] = "done"

Recorded(w) == pc[w] = "done" /\ res[w].kind \in {"forwarded", "skipped"}

\* C12: every eligible call, forwarded in full, capped or skipped, adds 1 to
\* totalCallCount and its queue size to totalQueued, and adds 1 to
\* totalCapped exactly when it was skipped or granted less than its clamped
\* max.
C12_RecordsEveryCall ==
    \A w \in Workers :
        Recorded(w) =>
            /\ loc[w].added.calls = 1
            /\ loc[w].added.queued = Len(loc[w].queue)
            /\ loc[w].added.capped =
                   IF res[w].kind = "skipped" \/ loc[w].allowed < loc[w].max THEN 1 ELSE 0

\* stats task i logs its report in this step / ends its report in this step
Logs(i) == statsTasks[i].pc = "load_capped" /\ statsTasks'[i].pc = "store_calls"
EndsFlush(i) == statsTasks[i].pc = "store_capped" /\ statsTasks'[i].pc = "while"

\* C13: a report that no other writer of the counters disturbs shows the
\* three counters as they stand (calls, queued / calls, capped,
\* capped / calls * 100; 0 for both quotients when calls is 0) and leaves all
\* three at 0, so that a second such report shows zeros.
C13_CleanFlush ==
    [][\A i \in DOMAIN statsTasks :
          /\ (Logs(i) /\ statsTasks'[i].flush = "clean") =>
                 /\ statsTasks'[i].report.calls = totalCallCount
                 /\ statsTasks'[i].report.capped = totalCapped
                 /\ statsTasks'[i].report.avgQueue =
                        IF totalCallCount = 0 THEN <<0, 1>>
                        ELSE <<totalQueued, totalCallCount>>
                 /\ statsTasks'[i].report.cappedPct =
                        IF totalCallCount = 0 THEN <<0, 1>>
                        ELSE <<totalCapped * 100, totalCallCount>>
          /\ (EndsFlush(i) /\ statsTasks'[i].flush = "clean") =>
                 totalCallCount' = 0 /\ totalQueued' = 0 /\ totalCapped' = 0]_vars

\* a forwarded call added 1 and its queue size 3, a report showed exactly
\* that and reset the counters, and a second undisturbed report shows zeros
C13_Witness ==
    \E i \in DOMAIN statsTasks : \E w \in Workers :
        /\ pc[w] = "done" /\ loc[w].added.calls = 1 /\ loc[w].added.queued = 3
        /\ statsTasks[i].pc = "store_calls" /\ statsTasks[i].flush = "clean"
        /\ statsTasks[i].report = NoReport /\ hist.skew = NoCounts
        /\ totalCallCount = 0 /\ totalQueued = 0 /\ totalCapped = 0

\* C14: a report loses no increment of a concurrent drain call: for each
\* counter, whenever no report is under way, the values the reports loaded
\* of it plus its current value equal everything added to it since enable.
C14_FlushLosesNothing ==
    (\A i \in DOMAIN statsTasks : statsTasks[i].flush = "none") => hist.skew = NoCounts

\* C15: a drain call never raises the budget: every successful
\* compare-and-swap stores a value that is at most the value it replaces,
\* whatever the request and whatever the per-call cap.
C15_BudgetMonotone ==
    [][\A w \in Workers :
          CasSucceeds(w) => gTickBudgetRemaining' <= gTickBudgetRemaining]_vars

\* the three counters hold 0
CountersZero == totalCallCount = 0 /\ totalQueued = 0 /\ totalCapped = 0

\* from enable's store to the budget until the next TickStart the budget
\* stays 0; a call that starts in that window is skipped when eligible and
\* forwarded as received when not
SkipsUntilTick ==
    /\ ~hist.ticked => gTickBudgetRemaining = 0
    /\ \A w \in Workers :
          (~hist.ticked /\ loc[w].sawZero /\ pc[w] = "done") =>
              \/ /\ res[w].kind = "skipped" /\ ~res[w].invoked /\ res[w].ret = FALSE
              \/ /\ res[w].kind = "passthrough" /\ res[w].invoked
                 /\ res[w].args = Received(loc[w]) /\ res[w].ret = res[w].originRet

\* C16: once enable has stored 0 in the three counters they hold 0 until a
\* drain call adds to them; and from enable's store of 0 to the budget
\* until the next TickStart the budget stays 0, every eligible call that
\* starts is skipped (the original is not invoked) and every other call is
\* forwarded as received.
C16_FreshUntilTick ==
    /\ (hist.fresh /\ lifecycle \notin {"en_queued", "en_capped"}) => CountersZero
    /\ SkipsUntilTick

\* after a second enable and before any tick, a call on a portal-only queue
\* has been skipped; the counters show this call alone
C16_Witness ==
    \E w \in Workers :
        /\ Len(statsTasks) = 2 /\ lifecycle = "idle" /\ pluginEnabled /\ ~hist.ticked
        /\ pc[w] = "done" /\ res[w].kind = "skipped" /\ loc[w].sawZero
        /\ totalCallCount = 1 /\ totalQueued = 0 /\ totalCapped = 1

\* C17: a TickStart that stores between a drain call's load and its
\* compare-and-swap is not undone by that call: after every step the budget
\* is the value of the most recent store (TickStart or enable) minus the
\* grants whose compare-and-swap succeeded since, and each grant is at most
\* the budget value it replaced.
C17_ResetNotUndone ==
    [][/\ \A w \in Workers : CasSucceeds(w) => loc[w].allowed <= gTickBudgetRemaining
       /\ WSub(Wide(hist'.base), hist'.granted) = Wide(gTickBudgetRemaining')]_vars

\* worker w goes round the loop of line 123-134 in this step
Retries(w) ==
    /\ pc[w] = "cas" /\ pc'[w] = "cas"
    /\ loc'[w].remaining # loc[w].remaining \/ loc'[w].retry # loc[w].retry

\* C18 as stated, its last clause: a call goes round the retry loop only
\* when the budget no longer has the value the call last observed.
C18_RetryOnlyOnChange ==
    [][\A w \in Workers : Retries(w) => gTickBudgetRemaining # loc[w].remaining]_vars

\* C18 amended: under fair scheduling every call that reaches the
\* compare-and-swap eventually succeeds in it or takes the skip path; a call
\* goes round the loop only when its compare-and-swap failed, because the
\* budget changed or because the weak compare-and-swap failed spuriously.
C18_RetryTerminates ==
    /\ \A w \in Workers : (pc[w] = "cas") ~> (pc[w] \in {"queued", "skip"})
    /\ [][\A w \in Workers :
             Retries(w) => \/ gTickBudgetRemaining # loc[w].remaining
                           \/ loc'[w].retry = "spurious"]_vars

\* a call whose compare-and-swap failed on a changed budget (another call
\* was granted 2 of 3) has gone round the loop and can now succeed with the
\* remaining unit
C18_Witness ==
    \E w \in Workers : \E v \in Workers :
        /\ pc[w] = "cas" /\ loc[w].retry = "changed"
        /\ loc[w].remaining = 1 /\ loc[w].allowed = 1 /\ gTickBudgetRemaining = 1
        /\ Granted(v) /\ loc[v].allowed = 2

\* no report is under way
NoFlush == \A i \in DOMAIN statsTasks : statsTasks[i].flush = "none"

\* C19 as stated: totalCapped <= totalCallCount whenever no report is in
\* the middle of its loads and stores, also when a report has interleaved
\* with a drain call in flight; and no report shows capped above calls.
C19_CappedWithinCalls ==
    /\ NoFlush => totalCapped <= totalCallCount
    /\ \A i \in DOMAIN statsTasks :
          statsTasks[i].pc \in {"store_calls", "store_queued", "store_capped"} =>
              statsTasks[i].report.capped <= statsTasks[i].report.calls

\* C19 amended: every drain call adds 1 to totalCallCount before it adds to
\* totalCapped, and adds to totalCapped at most once: capped <= calls holds
\* of what each call has added, not of the counters once a reset falls
\* between the two additions.
C19_CappedAfterCounted ==
    \A w \in Workers :
        /\ loc[w].added.capped <= loc[w].added.calls
        /\ loc[w].added.calls <= 1
        /\ pc[w] \in {"load", "cas", "skip", "queued", "forward"} => loc[w].added.calls = 1

\* a call was counted, a report then reset the counters, and the call was
\* skipped: it added 1 to each counter, and the counters show capped 1 of
\* 0 calls
C19_Witness ==
    \E w \in Workers :
        /\ pc[w] = "done" /\ res[w].kind = "skipped"
        /\ loc[w].added.calls = 1 /\ loc[w].added.capped = 1
        /\ NoFlush /\ totalCallCount = 0 /\ totalCapped = 1

\* the stats tasks that have been launched and have not left their loop
LiveTasks == {i \in DOMAIN statsTasks : statsTasks[i].pc # "exited"}

\* C20: after any sequence of enable and disable, at most one stats task is
\* live.
C20_OneStatsTask == Cardinality(LiveTasks) <= 1

====
